---- MODULE Spec2Model ----
(***************************************************************************)
(* Model of app/main.py: a FastAPI application whose six route handlers    *)
(* read and write one module-level dict, books, from int id to str title.  *)
(*                                                                         *)
(* Spec      requests served one after the other, one action per handler.  *)
(* SpecConc  requests served by worker threads; a handler's statements are *)
(*           separate steps, so requests interleave between them.          *)
(***************************************************************************)
EXTENDS Integers, Sequences, FiniteSets, TLC

\* ---------------------------------------------------------------- bounds
MaxId == 2
MaxTitles == 3
MaxThreads == 2
MaxConcId == 1
MaxConcTitles == 2

\* book_id: int (path parameter)
BookIds == 1..MaxId

\* title: str (query parameter); the pool holds the placeholder of get_book
\* as a title a client may send.
TitlePool == <<"Dune", "Not Found", "Emma", "Ulysses">>

Titles == {TitlePool[i] : i \in 1..MaxTitles}

VARIABLES
    books,   \* the module-level dict: a sequence of [key, value] entries in insertion order
    call,    \* the request served last (Spec)
    resp,    \* the response to it (Spec)
    last,    \* history (Spec): per id, the latest create/update/delete request served
    applied, \* history: per id, the title of the latest write applied with no delete after it
    pc,      \* per worker thread: "idle", or "return" between a handler's statement and its return (SpecConc)
    frame    \* per worker thread: the handler's frame (its arguments and return value) (SpecConc)

vars == <<books, call, resp, last, applied, pc, frame>>

\* ------------------------------------------------------------ Python dict
Keys(d) == {d[i].key : i \in 1..Len(d)}

IndexOf(d, key) == CHOOSE i \in 1..Len(d) : d[i].key = key

RemoveAt(d, i) == [j \in 1..(Len(d) - 1) |-> IF j < i THEN d[j] ELSE d[j + 1]]

\* Faulty d[key] = value: a list's append, which keeps the entry already there.
DictSetAppend(d, key, value) == Append(d, [key |-> key, value |-> value])

\* Faulty d[key] = value: d.setdefault(key, value), which keeps the value already there.
DictSetIfAbsent(d, key, value) ==
    IF key \in Keys(d) THEN d ELSE Append(d, [key |-> key, value |-> value])

\* d[key] = value: replaces the value in place, or appends a new entry
DictSet(d, key, value) ==
    IF key \in Keys(d)
    THEN [d EXCEPT ![IndexOf(d, key)].value = value]
    ELSE Append(d, [key |-> key, value |-> value])

\* Faulty d.get(key, default): d[key], which raises KeyError on a missing key.
DictGetSubscript(d, key, default) ==
    IF key \in Keys(d)
    THEN [value |-> d[IndexOf(d, key)].value, raised |-> FALSE]
    ELSE [value |-> default, raised |-> TRUE]

\* d.get(key, default): never raises
DictGet(d, key, default) ==
    IF key \in Keys(d)
    THEN [value |-> d[IndexOf(d, key)].value, raised |-> FALSE]
    ELSE [value |-> default, raised |-> FALSE]

\* Faulty d.pop(key, None): d.pop(key), which raises KeyError on a missing key.
DictPopNoDefault(d, key) ==
    IF key \in Keys(d)
    THEN [dict |-> RemoveAt(d, IndexOf(d, key)), raised |-> FALSE]
    ELSE [dict |-> d, raised |-> TRUE]

\* Faulty d.pop(key, None): d.popitem(), which removes the entry inserted last.
DictPopItem(d, key) ==
    IF d # <<>>
    THEN [dict |-> RemoveAt(d, Len(d)), raised |-> FALSE]
    ELSE [dict |-> d, raised |-> FALSE]

\* d.pop(key, None): removes the entry if there is one; with a default given it never raises
DictPop(d, key) ==
    IF key \in Keys(d)
    THEN [dict |-> RemoveAt(d, IndexOf(d, key)), raised |-> FALSE]
    ELSE [dict |-> d, raised |-> FALSE]

\* -------------------------------------------------------------- responses
\* A handler's return value is sent as the body of a 200 response.
Ok(body) == [status |-> 200, body |-> body]

\* A handler has no try/except: an exception raised in it leaves the handler
\* and the framework answers 500.
ServerError == [status |-> 500, body |-> [error |-> "Internal Server Error"]]

Respond(raised, body) == IF raised THEN ServerError ELSE Ok(body)

NoResponse == [status |-> 0, body |-> [none |-> TRUE]]

\* --------------------------------------------------------------- handlers
\* Each handler is a function of the dict and its arguments to
\* [dict: the dict it leaves, raised: whether it raised, body: its return value].

\* @app.get("/")
root(d) ==
    [dict |-> d, raised |-> FALSE, body |-> [message |-> "Hello from FastAPI CI/CD!"]]

\* Faulty create_book: a create that does not overwrite an existing book.
create_book_if_absent(d, book_id, title) ==
    [dict |-> DictSetIfAbsent(d, book_id, title),
     raised |-> FALSE,
     body |-> [id |-> book_id, title |-> title]]

\* @app.post("/books/{book_id}")
create_book(d, book_id, title) ==
    [dict |-> DictSet(d, book_id, title),
     raised |-> FALSE,
     body |-> [id |-> book_id, title |-> title]]

\* Faulty list_books: a first page of one entry.
list_books_page(d) ==
    [dict |-> d, raised |-> FALSE, body |-> IF d = <<>> THEN d ELSE <<d[1]>>]

\* @app.get("/books")
list_books(d) ==
    [dict |-> d, raised |-> FALSE, body |-> d]

\* Faulty get_book: books.setdefault(book_id, "Not Found"), which inserts the placeholder.
get_book_setdefault(d, book_id) ==
    LET r == DictGet(d, book_id, "Not Found")
    IN  [dict |-> DictSetIfAbsent(d, book_id, "Not Found"),
         raised |-> r.raised,
         body |-> [id |-> book_id, title |-> r.value]]

\* @app.get("/books/{book_id}")
get_book(d, book_id) ==
    LET r == DictGet(d, book_id, "Not Found")
    IN  [dict |-> d, raised |-> r.raised, body |-> [id |-> book_id, title |-> r.value]]

\* Faulty update_book: an update that refuses an id with no book.
update_book_existing_only(d, book_id, title) ==
    [dict |-> IF book_id \in Keys(d) THEN DictSet(d, book_id, title) ELSE d,
     raised |-> book_id \notin Keys(d),
     body |-> [id |-> book_id, title |-> title]]

\* @app.put("/books/{book_id}")
update_book(d, book_id, title) ==
    [dict |-> DictSet(d, book_id, title),
     raised |-> FALSE,
     body |-> [id |-> book_id, title |-> title]]

\* Faulty delete_book: books.get(book_id, None), which removes nothing.
delete_book_get(d, book_id) ==
    [dict |-> d, raised |-> FALSE, body |-> [message |-> "Deleted"]]

\* @app.delete("/books/{book_id}")
delete_book(d, book_id) ==
    LET r == DictPop(d, book_id)
    IN  [dict |-> r.dict, raised |-> r.raised, body |-> [message |-> "Deleted"]]

\* ---------------------------------------------------------------- history
Mutations == {"create_book", "update_book", "delete_book"}

Writes == {"create_book", "update_book"}

NoHistory == [op |-> "none", title |-> "", hit |-> FALSE]

\* The history a request leaves: a mutation of id becomes the latest one of id,
\* and remembers whether it found an entry for id (one to overwrite or to remove).
Track(request) ==
    IF request.op \in Mutations
    THEN [last EXCEPT ![request.id] =
            [op |-> request.op,
             title |-> IF request.op \in Writes THEN request.title ELSE "",
             hit |-> request.id \in Keys(books)]]
    ELSE last

\* The history's mark of an id that holds no title.
NoTitle == [has |-> FALSE, title |-> ""]

\* The history a request leaves: what the dict should hold for its id.
Apply(request) ==
    CASE request.op \in Writes ->
            [applied EXCEPT ![request.id] = [has |-> TRUE, title |-> request.title]]
      [] request.op = "delete_book" -> [applied EXCEPT ![request.id] = NoTitle]
      [] OTHER -> applied

\* ------------------------------------------------- Spec: one request at a time
Init ==
    /\ books = <<>>
    /\ call = [op |-> "none"]
    /\ resp = NoResponse
    /\ last = [i \in BookIds |-> NoHistory]
    /\ applied = [i \in BookIds |-> NoTitle]
    /\ pc = <<>>
    /\ frame = <<>>

\* The request is routed to its handler, which runs to its return; the
\* return value (or the exception) becomes the response.
Serve(request, result) ==
    /\ books' = result.dict
    /\ call' = request
    /\ resp' = Respond(result.raised, result.body)
    /\ last' = Track(request)
    /\ applied' = Apply(request)
    /\ UNCHANGED <<pc, frame>>

GetRoot == Serve([op |-> "root"], root(books))

PostBook(book_id, title) ==
    Serve([op |-> "create_book", id |-> book_id, title |-> title],
          create_book(books, book_id, title))

GetBooks == Serve([op |-> "list_books"], list_books(books))

GetBook(book_id) ==
    Serve([op |-> "get_book", id |-> book_id], get_book(books, book_id))

PutBook(book_id, title) ==
    Serve([op |-> "update_book", id |-> book_id, title |-> title],
          update_book(books, book_id, title))

DeleteBook(book_id) ==
    Serve([op |-> "delete_book", id |-> book_id], delete_book(books, book_id))

Next ==
    \/ GetRoot
    \/ \E book_id \in BookIds, title \in Titles : PostBook(book_id, title)
    \/ GetBooks
    \/ \E book_id \in BookIds : GetBook(book_id)
    \/ \E book_id \in BookIds, title \in Titles : PutBook(book_id, title)
    \/ \E book_id \in BookIds : DeleteBook(book_id)

Spec == Init /\ [][Next]_vars

\* ------------------------------------------- SpecConc: requests on worker threads
\* The handlers are plain def functions, which the framework runs on the
\* threads of a pool: a thread may be preempted between a handler's statement
\* on the dict and its return. list_books is left out: it returns the dict
\* object itself, which the framework reads after the handler has returned.
Threads == 1..MaxThreads

ConcIds == 1..MaxConcId

ConcTitles == {TitlePool[i] : i \in 1..MaxConcTitles}

NoFrame == [request |-> [op |-> "none"], raised |-> FALSE, body |-> [none |-> TRUE]]

InitConc ==
    /\ books = <<>>
    /\ call = [op |-> "none"]
    /\ resp = NoResponse
    /\ last = <<>>
    /\ applied = [i \in ConcIds |-> NoTitle]
    /\ pc = [t \in Threads |-> "idle"]
    /\ frame = [t \in Threads |-> NoFrame]

\* An idle thread takes a request and runs its handler's statement on the
\* dict, one bytecode-level dict operation; the return value is then fixed
\* (it is built from the arguments and from what was read).
Run(t, request, result) ==
    /\ pc[t] = "idle"
    /\ books' = result.dict
    /\ frame' = [frame EXCEPT ![t] =
                    [request |-> request, raised |-> result.raised, body |-> result.body]]
    /\ pc' = [pc EXCEPT ![t] = "return"]
    /\ applied' = Apply(request)
    /\ UNCHANGED <<call, resp, last>>

RunRoot(t) == Run(t, [op |-> "root"], root(books))

RunCreateBook(t, book_id, title) ==
    Run(t, [op |-> "create_book", id |-> book_id, title |-> title],
        create_book(books, book_id, title))

RunGetBook(t, book_id) ==
    Run(t, [op |-> "get_book", id |-> book_id], get_book(books, book_id))

RunUpdateBook(t, book_id, title) ==
    Run(t, [op |-> "update_book", id |-> book_id, title |-> title],
        update_book(books, book_id, title))

RunDeleteBook(t, book_id) ==
    Run(t, [op |-> "delete_book", id |-> book_id], delete_book(books, book_id))

\* The response a thread sends when its handler returns.
Response(t) == Respond(frame[t].raised, frame[t].body)

\* The handler returns, its response is sent, and the thread is idle again.
Return(t) ==
    /\ pc[t] = "return"
    /\ frame' = [frame EXCEPT ![t] = NoFrame]
    /\ pc' = [pc EXCEPT ![t] = "idle"]
    /\ UNCHANGED <<books, call, resp, last, applied>>

NextConc ==
    \/ \E t \in Threads : RunRoot(t)
    \/ \E t \in Threads, book_id \in ConcIds, title \in ConcTitles :
            RunCreateBook(t, book_id, title)
    \/ \E t \in Threads, book_id \in ConcIds : RunGetBook(t, book_id)
    \/ \E t \in Threads, book_id \in ConcIds, title \in ConcTitles :
            RunUpdateBook(t, book_id, title)
    \/ \E t \in Threads, book_id \in ConcIds : RunDeleteBook(t, book_id)
    \/ \E t \in Threads : Return(t)

SpecConc == InitConc /\ [][NextConc]_vars

\* ================================================================ properties
\* The titles the dict holds for an id: none, or (C2) exactly one.
TitlesOf(d, id) == {d[i].value : i \in {j \in 1..Len(d) : d[j].key = id}}

\* The dict without the entry of id, the other entries in their order.
Without(d, id) == SelectSeq(d, LAMBDA e : e.key # id)

Echo(id, title) == Ok([id |-> id, title |-> title])

\* C1: create_book(id, t) answers {"id": id, "title": t}, and a get_book(id)
\* served while that create_book is still the latest create/update/delete of
\* id answers {"id": id, "title": t}.
C1_CreateThenGet ==
    /\ call.op = "create_book" => resp = Echo(call.id, call.title)
    /\ (call.op = "get_book" /\ last[call.id].op = "create_book")
            => resp = Echo(call.id, last[call.id].title)

\* get_book(id) served after a create_book(id, t) that overwrote an entry.
C1_Witness ==
    /\ call.op = "get_book"
    /\ last[call.id].op = "create_book"
    /\ last[call.id].hit
    /\ resp.body.title = last[call.id].title

\* C2: last write wins. While a create_book/update_book is the latest
\* create/update/delete of id, the dict holds exactly its title for id and
\* get_book(id) answers that title; the dict never holds two entries for one id.
C2_LastWriteWins ==
    /\ \A i, j \in 1..Len(books) : books[i].key = books[j].key => i = j
    /\ \A id \in BookIds :
            last[id].op \in Writes => TitlesOf(books, id) = {last[id].title}
    /\ (call.op = "get_book" /\ last[call.id].op \in Writes)
            => resp = Echo(call.id, last[call.id].title)

\* get_book(id) served after an update_book(id, t2) that overwrote an entry.
C2_Witness ==
    /\ call.op = "get_book"
    /\ last[call.id].op = "update_book"
    /\ last[call.id].hit
    /\ resp.body.title = last[call.id].title
    /\ Len(books) = 2

\* C3: get_book(id) for an id never written, or deleted since its last write,
\* answers 200 with {"id": id, "title": "Not Found"}, and id is no key of the
\* dict afterwards.
C3_AbsentIsNotFound ==
    /\ \A id \in BookIds :
            last[id].op \in {"none", "delete_book"} => id \notin Keys(books)
    /\ (call.op = "get_book" /\ last[call.id].op \in {"none", "delete_book"})
            => /\ resp = Echo(call.id, "Not Found")
               /\ resp.status = 200
               /\ call.id \notin Keys(books)

\* get_book(id) of an id never written, served while the dict holds another book.
C3_Witness ==
    /\ call.op = "get_book"
    /\ last[call.id].op = "none"
    /\ books # <<>>
    /\ resp.body.title = "Not Found"

\* C4: get_book(id) served while a delete_book(id) is the latest
\* create/update/delete of id answers title "Not Found", whether or not the
\* delete found an entry.
C4_DeleteThenGet ==
    (call.op = "get_book" /\ last[call.id].op = "delete_book")
        => resp = Echo(call.id, "Not Found")

\* get_book(id) served after a delete_book(id) that removed an entry.
C4_Witness ==
    /\ call.op = "get_book"
    /\ last[call.id].op = "delete_book"
    /\ last[call.id].hit
    /\ resp.body.title = "Not Found"

\* C5: list_books answers the dict: exactly the ids whose latest
\* create/update/delete is a create_book or update_book, each once, with the
\* title of that write.
C5_ListIsLatestWrites ==
    /\ call.op = "list_books" => resp = Ok(books)
    /\ Keys(books) = {id \in BookIds : last[id].op \in Writes}
    /\ Len(books) = Cardinality(Keys(books))
    /\ \A i \in 1..Len(books) : books[i].value = last[books[i].key].title

\* list_books served after a create_book of every id, none overwriting.
C5_Witness ==
    /\ call.op = "list_books"
    /\ Len(resp.body) = MaxId
    /\ \A id \in BookIds : last[id].op = "create_book" /\ ~last[id].hit
    /\ \E i, j \in 1..Len(resp.body) : resp.body[i].value # resp.body[j].value

\* C6: delete_book(id) answers 200 with {"message": "Deleted"} in every
\* state; it removes the entry of id and no other, and leaves the dict as it
\* is when id has no entry.
C6_DeleteNeverFails ==
    [][call'.op = "delete_book"
        => /\ resp' = Ok([message |-> "Deleted"])
           /\ books' = Without(books, call'.id)
           /\ call'.id \notin Keys(books) => books' = books]_vars

\* delete_book(id) served for an id with no entry, the dict holding another book.
C6_Witness ==
    /\ call.op = "delete_book"
    /\ ~last[call.id].hit
    /\ books # <<>>
    /\ resp = Ok([message |-> "Deleted"])

\* C7: in every state and for every id and title, update_book and create_book
\* leave the same dict and return the same {"id": id, "title": title}; neither
\* raises, and the dict they leave holds title for id.
C7_UpdateIsCreate ==
    \A id \in BookIds, t \in Titles :
        LET c == create_book(books, id, t)
            u == update_book(books, id, t)
        IN  /\ u = c
            /\ ~u.raised /\ ~c.raised
            /\ u.body = [id |-> id, title |-> t]
            /\ TitlesOf(u.dict, id) = {t}
            /\ TitlesOf(c.dict, id) = {t}

\* update_book served for an id with no entry: it inserted the book.
C7_Witness ==
    /\ call.op = "update_book"
    /\ ~last[call.id].hit
    /\ resp = Echo(call.id, call.title)
    /\ TitlesOf(books, call.id) = {call.title}

\* C10: root, list_books and get_book leave the dict as it is;
\* create_book, update_book and delete_book of id leave every other id's
\* presence and title as they are.
C10_Frame ==
    [][/\ call'.op \in {"root", "list_books", "get_book"} => books' = books
       /\ call'.op \in Mutations
            => \A other \in BookIds \ {call'.id} :
                    TitlesOf(books', other) = TitlesOf(books, other)]_vars

\* delete_book(id) removed the entry of id and the dict still holds another book.
C10_Witness ==
    /\ call.op = "delete_book"
    /\ last[call.id].hit
    /\ books # <<>>

\* A thread between the dict statement of a write to id and its return.
Writing(t, id) ==
    /\ pc[t] = "return"
    /\ frame[t].request.op \in Writes
    /\ frame[t].request.id = id

\* C8: nothing orders concurrent writes of one id. While a write of id is
\* between its statement and its return, every idle thread can run a write of
\* the same id with any title, and that title is then the dict's; the dict
\* holds the title of the write applied last, whichever request that is; and
\* each writer's response echoes its own title, not the dict's.
C8_WritesRace ==
    /\ \A t, u \in Threads, id \in ConcIds, title \in ConcTitles :
            (Writing(t, id) /\ pc[u] = "idle")
                => /\ ENABLED (RunCreateBook(u, id, title) /\ TitlesOf(books', id) = {title})
                   /\ ENABLED (RunUpdateBook(u, id, title) /\ TitlesOf(books', id) = {title})
    /\ \A id \in ConcIds :
            TitlesOf(books, id) = IF applied[id].has THEN {applied[id].title} ELSE {}
    /\ \A t \in Threads, id \in ConcIds :
            Writing(t, id) => Response(t) = Echo(id, frame[t].request.title)

\* Two writes of one id with different titles are both between statement and
\* return: the dict holds the title of one, and the other writer's response
\* differs from what get_book(id) returns now.
C8_Witness ==
    \E t, u \in Threads, id \in ConcIds :
        /\ t # u
        /\ Writing(t, id) /\ Writing(u, id)
        /\ frame[t].request.op = "create_book"
        /\ frame[u].request.op = "update_book"
        /\ frame[t].request.title # frame[u].request.title
        /\ TitlesOf(books, id) = {frame[t].request.title}
        /\ Response(u).body # get_book(books, id).body

\* What get_book(id) is to return when it reads the dict: the title of the
\* write of id applied last, "Not Found" when there is none or a delete
\* followed it.
Latest(id) == IF applied[id].has THEN applied[id].title ELSE "Not Found"

====
